---- MODULE Spec2Model ----
(***************************************************************************)
(* A model of the audio visualizer's core (src/main.go):                   *)
(*   - visualTap, the ring buffer that records the frames on their way to  *)
(*     the speaker (SpecTap);                                              *)
(*   - the game's playback clock: updateAudioPosition, seekToPosition,     *)
(*     togglePause, loadAndPlay and the end-of-stream callback, first with *)
(*     every handler run to completion (SpecPlayer), then with the         *)
(*     consumer's and the speaker goroutine's memory accesses interleaved  *)
(*     (SpecRace);                                                         *)
(*   - updateAudioData, which turns a snapshot of the tap into the 64      *)
(*     bands of the spectrum (SpecAnalyzer).                               *)
(***************************************************************************)
EXTENDS Integers, Sequences, FiniteSets, TLC

VARIABLES
    \* visualTap
    buffer,         \* t.buffer, slot i of the code is buffer[i + 1]
    nextIndex,      \* t.nextIndex
    samples,        \* the batch as the speaker sees it when Stream returns
    ret,            \* <<n, ok>> as returned by the last Stream
    src,            \* what t.Source.Stream returned in that call
    pushed,         \* every frame recorded so far, oldest first
    snap,           \* the snapshot taken since the last Stream, if any
    \* game (0 stands for nil)
    streamer,       \* g.streamer: the decoder of the current stream
    currentFile,    \* g.currentFile
    format,         \* g.format.SampleRate
    ctrl,           \* g.ctrl
    tap,            \* g.tap
    paused,         \* g.paused
    initDone,       \* g.initDone
    lastErr,        \* g.lastErr
    audioDuration,  \* g.audioDuration
    audioPosition,  \* g.audioPosition
    lastSeekTime,   \* g.lastSeekTime
    \* the game's collaborators
    now,            \* time.Now()
    decoders,       \* the decoders opened so far: rate, len, times closed
    ctrlPaused,     \* g.ctrl.Paused
    playing,        \* the decoder whose chain the speaker's mixer plays
    speakerMu,      \* the holder of the speaker's mutex
    consumer,       \* where the goroutine that runs Update stands
    lastCall,       \* the handler that ran last at this instant, and what it did
    producer,       \* where the speaker goroutine stands in the callback
    local,          \* the locals of the handler the consumer is in
    \* the spectrum
    audioData,      \* g.audioData, band i of the code is audioData[i + 1]
    analysed,       \* the snapshot the last updateAudioData worked on
    updates,        \* the updateAudioData calls so far
    \* the tap's lock
    mu,             \* t.mu: "free", or held by the "writer" or the "reader"
    tapLocal        \* the loop variables of Stream and of snapshot

tapVars == <<buffer, nextIndex, samples, ret, src, pushed, snap>>

gameVars == <<streamer, currentFile, format, ctrl, tap, paused, initDone,
              lastErr, audioDuration, audioPosition, lastSeekTime>>

envVars == <<now, decoders, ctrlPaused, playing, speakerMu, consumer, lastCall>>

raceVars == <<producer, local>>

vizVars == <<audioData, analysed, updates>>

lockVars == <<mu, tapLocal>>

(***************************************************************************)
(* Bounds of the tap model.                                                *)
(***************************************************************************)
MaxCapacity == 4    \* ring sizes 1..MaxCapacity
MaxBatch == 5       \* frames one Source.Stream call may deliver
MaxPushed == 6      \* frames delivered in one run

ZeroFrame == <<0, 0>>

\* [2]float64 frames: silence and one audible frame
Frames == {ZeroFrame, <<1, -1>>}

NoSnap == [n |-> -1, out |-> <<>>, reads |-> <<>>]

RECURSIVE Reverse(_)
Reverse(s) == IF s = <<>> THEN <<>> ELSE Append(Reverse(Tail(s)), Head(s))

newVisualTap(ringSize) == [i \in 1..ringSize |-> ZeroFrame]

\* a recording loop that stops at the end of the ring instead of wrapping
RECURSIVE RecordNoWrap(_, _, _, _, _)
RecordNoWrap(buf, idx, smp, i, n) ==
    IF i >= n \/ idx >= Len(buf)
    THEN [buffer |-> buf, nextIndex |-> IF idx >= Len(buf) THEN 0 ELSE idx]
    ELSE RecordNoWrap([buf EXCEPT ![idx + 1] = smp[i + 1]], idx + 1,
                      smp, i + 1, n)

\* a recording loop that wraps one slot late
RECURSIVE RecordLoopWrapsLate(_, _, _, _, _)
RecordLoopWrapsLate(buf, idx, smp, i, n) ==
    IF i >= n
    THEN [buffer |-> buf, nextIndex |-> idx]
    ELSE LET written == [buf EXCEPT ![(idx % Len(buf)) + 1] = smp[i + 1]]
             next == idx + 1
         IN  RecordLoopWrapsLate(written, IF next > Len(buf) THEN 0 ELSE next,
                                 smp, i + 1, n)

(***************************************************************************)
(* The recording loop of Stream: copy samples[i] to the cursor, advance    *)
(* the cursor, wrap at len(t.buffer).                                      *)
(***************************************************************************)
RECURSIVE RecordLoop(_, _, _, _, _)
RecordLoop(buf, idx, smp, i, n) ==
    IF i >= n
    THEN [buffer |-> buf, nextIndex |-> idx]
    ELSE LET written == [buf EXCEPT ![idx + 1] = smp[i + 1]]
             next == idx + 1
         IN  RecordLoop(written, IF next >= Len(buf) THEN 0 ELSE next,
                        smp, i + 1, n)

Record(buf, idx, smp, n) == RecordLoop(buf, idx, smp, 0, n)

\* a tap that reports at most len(t.buffer) frames to the speaker
StreamClamped(buf, idx, source) ==
    LET rec == Record(buf, idx, source.samples, source.n)
        n == IF source.n > Len(buf) THEN Len(buf) ELSE source.n
    IN  [buffer |-> rec.buffer, nextIndex |-> rec.nextIndex,
         samples |-> SubSeq(source.samples, 1, n), n |-> n, ok |-> source.ok]

(***************************************************************************)
(* visualTap.Stream: source is what t.Source.Stream(samples) did, the      *)
(* count n, the flag ok and the frames it wrote to samples[0..n).          *)
(***************************************************************************)
Stream(buf, idx, source) ==
    LET rec == IF source.n > 0
               THEN Record(buf, idx, source.samples, source.n)
               ELSE [buffer |-> buf, nextIndex |-> idx]
    IN  [buffer |-> rec.buffer, nextIndex |-> rec.nextIndex,
         samples |-> source.samples, n |-> source.n, ok |-> source.ok]

(***************************************************************************)
(* The backward walk of snapshot: the slots read, in the order read.       *)
(***************************************************************************)
RECURSIVE SnapshotWalk(_, _, _, _)
SnapshotWalk(len, idx, i, n) ==
    IF i >= n
    THEN <<>>
    ELSE LET prev == idx - 1
         IN  <<idx>> \o SnapshotWalk(len, IF prev < 0 THEN len - 1 ELSE prev,
                                     i + 1, n)

\* a snapshot that forgets to put the frames back in chronological order
snapshotNewestFirst(buf, idx, n0) ==
    LET n == IF n0 > Len(buf) THEN Len(buf) ELSE n0
        start == IF idx - 1 < 0 THEN Len(buf) - 1 ELSE idx - 1
        reads == SnapshotWalk(Len(buf), start, 0, n)
    IN  [n |-> n0, out |-> [k \in 1..n |-> buf[reads[k] + 1]], reads |-> reads]

\* a snapshot that does not clamp n to len(t.buffer)
snapshotUnclamped(buf, idx, n0) ==
    LET start == IF idx - 1 < 0 THEN Len(buf) - 1 ELSE idx - 1
        reads == SnapshotWalk(Len(buf), start, 0, n0)
    IN  [n |-> n0, out |-> Reverse([k \in 1..n0 |-> buf[reads[k] + 1]]),
         reads |-> reads]

(***************************************************************************)
(* visualTap.snapshot(n0): clamp, walk backwards from nextIndex - 1,       *)
(* reverse.                                                                *)
(***************************************************************************)
snapshot(buf, idx, n0) ==
    LET n == IF n0 > Len(buf) THEN Len(buf) ELSE n0
        start == IF idx - 1 < 0 THEN Len(buf) - 1 ELSE idx - 1
        reads == SnapshotWalk(Len(buf), start, 0, n)
    IN  [n |-> n0, out |-> Reverse([k \in 1..n |-> buf[reads[k] + 1]]),
         reads |-> reads]

\* the loop variables: i of Stream's loop; n0, n, idx, i and out of snapshot
\* (k counts its loop), and the slots it has read
NoTapLocal == [i |-> 0, n0 |-> 0, n |-> 0, idx |-> 0, k |-> 0, out |-> <<>>,
               reads |-> <<>>]

\* sync.RWMutex of a new tap
InitLock ==
    /\ mu = "free"
    /\ tapLocal = NoTapLocal

\* what a Source.Stream call may return: n frames and the continuation flag
SourceResults ==
    UNION {[n : {k}, ok : BOOLEAN, samples : [1..k -> Frames]] : k \in 0..MaxBatch}

InitTap ==
    /\ buffer \in {newVisualTap(c) : c \in 1..MaxCapacity}
    /\ nextIndex = 0
    /\ samples = <<>>
    /\ ret = <<0, TRUE>>
    /\ src = [n |-> 0, ok |-> TRUE, samples |-> <<>>]
    /\ pushed = <<>>
    /\ snap = NoSnap

\* the tap of SpecPlayer and SpecRace, which do not follow its frames
IdleTap ==
    /\ buffer = newVisualTap(1)
    /\ nextIndex = 0
    /\ samples = <<>>
    /\ ret = <<0, TRUE>>
    /\ src = [n |-> 0, ok |-> TRUE, samples |-> <<>>]
    /\ pushed = <<>>
    /\ snap = NoSnap

\* the speaker pulls one batch through the tap; beep.Seq stops calling a
\* streamer once it has returned ok = false
TapStream(source) ==
    /\ ret[2]
    /\ Len(pushed) + source.n <= MaxPushed
    /\ LET r == Stream(buffer, nextIndex, source)
       IN  /\ buffer' = r.buffer
           /\ nextIndex' = r.nextIndex
           /\ samples' = r.samples
           /\ ret' = <<r.n, r.ok>>
    /\ src' = source
    /\ pushed' = pushed \o source.samples
    /\ snap' = NoSnap

\* the renderer takes a snapshot of n frames
TapSnapshot(n) ==
    /\ snap' = snapshot(buffer, nextIndex, n)
    /\ UNCHANGED <<buffer, nextIndex, samples, ret, src, pushed>>


(***************************************************************************)
(* The playback clock.  A time.Duration counts nanoseconds; the model      *)
(* counts sixtieths of a second, the step of updateAudioPosition, so that  *)
(* the products of seekToPosition stay within the checker's integers.      *)
(* Every duration of the code is a multiple or a quotient of time.Second   *)
(* and is computed here by the code's own expression.                      *)
(***************************************************************************)
Second == 60

TickDuration == Second \div 60                  \* time.Second / 60
DebounceInterval == (50 * Second) \div 1000     \* 50 * time.Millisecond

\* the zero time.Time of a new game lies ages before the program starts
ZeroTime == 0 - DebounceInterval

MaxNow == 4         \* the clock stops at MaxNow
MaxLoads == 2       \* loadAndPlay calls that get as far as decoding

Nil == 0

\* The audio files at hand: sample rate, length in samples.  Each lasts a
\* whole number of units, or has a rate below Second, as a real stream does
\* at nanosecond resolution.
Files == {[rate |-> 60, len |-> 4], [rate |-> 45, len |-> 4],
          [rate |-> 60, len |-> 0]}

\* scrub requests mouseProgress = num / den, possibly outside [0, 1]
SeekRequests == {<<-1, 2>>, <<0, 1>>, <<1, 2>>, <<2, 3>>, <<1, 1>>, <<3, 2>>}

\* before: <<g.paused, ctrl.Paused>> as togglePause found them; before2: the
\* same of the togglePause call just before it, <<>> if it followed another
\* call; closedRead: the speaker pulled samples from a closed decoder
NoCall == [op |-> "none", pos |-> <<0, 1>>, called |-> FALSE, offset |-> 0,
           accepted |-> FALSE, retry |-> FALSE, before |-> <<>>,
           before2 |-> <<>>, closedRead |-> FALSE]

Call(op) == [NoCall EXCEPT !.op = op]

NoLocal == [pos |-> <<0, 1>>, seekPos |-> 0, reg |-> 0]

\* int(x) of a float64 quotient num / den, den > 0: truncation toward zero
TruncDiv(num, den) == IF num >= 0 THEN num \div den ELSE 0 - ((0 - num) \div den)

\* time.Duration(streamer.Len()) * time.Second / time.Duration(rate)
StreamDuration(len, rate) == TruncDiv(len * Second, rate)

\* NewGame()
InitGame ==
    /\ streamer = Nil
    /\ currentFile = Nil
    /\ format = 0
    /\ ctrl = Nil
    /\ tap = Nil
    /\ paused = FALSE
    /\ initDone = FALSE
    /\ lastErr = "none"
    /\ audioDuration = 0
    /\ audioPosition = 0
    /\ lastSeekTime = ZeroTime

InitEnv ==
    /\ now = 0
    /\ decoders = <<>>
    /\ ctrlPaused = FALSE
    /\ playing = Nil
    /\ speakerMu = "free"
    /\ consumer = "idle"
    /\ lastCall = NoCall
    /\ producer = "idle"
    /\ local = NoLocal

(***************************************************************************)
(* updateAudioData.  A float64 is modelled by the exact rational           *)
(* <<numerator, denominator>> in lowest terms.                             *)
(***************************************************************************)
MaxUpdates == 2     \* updateAudioData calls in one run

NBands == 64                \* nBands
SnapshotFrames == 2048      \* g.tap.snapshot(2048)
SmoothingFactor == <<3, 5>> \* smoothingFactor = 0.6

RECURSIVE GCD(_, _)
GCD(a, b) == IF b = 0 THEN a ELSE GCD(b, a % b)

Rat(num, den) == LET g == GCD(IF num < 0 THEN 0 - num ELSE num, den)
                 IN  <<num \div g, den \div g>>

RatAdd(x, y) == Rat(x[1] * y[2] + y[1] * x[2], x[2] * y[2])
RatSub(x, y) == Rat(x[1] * y[2] - y[1] * x[2], x[2] * y[2])
RatMul(x, y) == Rat(x[1] * y[1], x[2] * y[2])

\* the frames of the snapshots: silence and a full-scale frame
AnalysedFrames == {ZeroFrame, <<1, 1>>}

\* the lengths of the snapshots; the program's own always has SnapshotFrames
SnapshotLengths == {0, 1, 32, 63, 64, 65, 100, 128, SnapshotFrames}

\* silence whose newest frame is full scale, for the lengths that put every
\* frame in a segment of its own
NewestLoud ==
    {[s \in 1..n |-> IF s = n THEN <<1, 1>> ELSE ZeroFrame] :
        n \in {m \in SnapshotLengths : 0 < m /\ m <= NBands + 1}}

\* the snapshots: n equal frames, or silence with a loud newest frame
Snapshots ==
    {[s \in 1..n |-> f] : n \in SnapshotLengths, f \in AnalysedFrames}
        \cup NewestLoud

InitAnalyzer ==
    /\ audioData = <<>>
    /\ analysed = <<>>
    /\ updates = 0

\* a segment size rounded up instead of down
SegmentSizeCeil(n) ==
    LET q == (n + NBands - 1) \div NBands IN IF q < 1 THEN 1 ELSE q

\* int(math.Max(1, float64(len(samples))/float64(nBands)))
SegmentSize(n) ==
    LET q == n \div NBands IN IF q < 1 THEN 1 ELSE q

\* the loop over s from start to end - 1, split in halves: the sum of
\* (samples[s][0] + samples[s][1])^2, which is four times mono * mono
RECURSIVE SumTwiceSquared(_, _, _)
SumTwiceSquared(smp, start, end) ==
    IF end <= start
    THEN 0
    ELSE IF end = start + 1
    THEN LET twice == smp[end][1] + smp[end][2] IN twice * twice
    ELSE LET mid == (start + end) \div 2
         IN  SumTwiceSquared(smp, start, mid) + SumTwiceSquared(smp, mid, end)

\* sumSquares: the sum of mono * mono, mono = (l + r) * 0.5
SumSquares(smp, start, end) == Rat(SumTwiceSquared(smp, start, end), 4)

\* math.Pow(math.Sqrt(q), 0.3): rational at 0 and at 1, the two mean squares
\* that snapshots of equal frames of AnalysedFrames have
PowSqrt(q) == CASE q = <<0, 1>> -> <<0, 1>>
                [] q = <<1, 1>> -> <<1, 1>>

\* rms := math.Sqrt(sumSquares / float64(end-start)); mag := math.Pow(rms, 0.3)
Magnitude(smp, start, end) ==
    PowSqrt(RatMul(SumSquares(smp, start, end), <<1, end - start>>))

\* a blend that halves the previous value
SmoothHalf(prev, mag) ==
    RatAdd(RatMul(<<1, 2>>, prev), RatMul(<<1, 2>>, mag))

\* smoothingFactor*g.audioData[i] + (1-smoothingFactor)*mag
Smooth(prev, mag) ==
    RatAdd(RatMul(SmoothingFactor, prev),
           RatMul(RatSub(<<1, 1>>, SmoothingFactor), mag))

\* updateAudioData from the snapshot on: g.audioData when it returns
updateAudioData(data, smp) ==
    LET n == Len(smp)
        bands == IF Len(data) # NBands THEN [i \in 1..NBands |-> <<0, 1>>]
                 ELSE data
        segmentSize == SegmentSize(n)
        Band(i) ==
            LET start == i * segmentSize
                end == IF start + segmentSize > n THEN n
                       ELSE start + segmentSize
            IN  IF start >= n
                THEN bands[i + 1]
                ELSE Smooth(bands[i + 1], Magnitude(smp, start, end))
    IN  IF n = 0 THEN data ELSE [i \in 1..NBands |-> Band(i - 1)]

\* Update calls updateAudioData, whose snapshot is smp
UpdateAudioData(smp) ==
    /\ updates < MaxUpdates
    /\ audioData' = updateAudioData(audioData, smp)
    /\ analysed' = smp
    /\ updates' = updates + 1

(***************************************************************************)
(* updateAudioPosition                                                     *)
(***************************************************************************)
\* an updateAudioPosition that does not look at g.paused
updateAudioPositionWhilePaused ==
    IF streamer = Nil
    THEN audioPosition
    ELSE LET advanced == audioPosition + TickDuration
         IN  IF advanced > audioDuration THEN audioDuration ELSE advanced

updateAudioPosition ==
    IF streamer = Nil \/ paused
    THEN audioPosition
    ELSE LET advanced == audioPosition + TickDuration
         IN  IF advanced > audioDuration THEN audioDuration ELSE advanced

(***************************************************************************)
(* seekToPosition                                                          *)
(***************************************************************************)
\* a cooldown that never suppresses
DebouncedNever(t, last) == FALSE

\* time.Since(g.lastSeekTime) < 50*time.Millisecond
Debounced(t, last) == t - last < DebounceInterval

\* pos clamped to [0, 1]
ClampPos(pos) ==
    IF pos[1] < 0 THEN <<0, 1>>
    ELSE IF pos[1] > pos[2] THEN <<1, 1>>
    ELSE pos

\* the target rounded to the nearest sample
SeekTargetRounded(pos, dur, rate) ==
    (2 * pos[1] * dur * rate + pos[2] * Second) \div (2 * pos[2] * Second)

\* int(pos * float64(g.audioDuration) * float64(rate) / float64(time.Second))
SeekTarget(pos, dur, rate) == TruncDiv(pos[1] * dur * rate, pos[2] * Second)

\* an upper clamp that lets the offset maxPos through
ClampOffsetInclusive(seekPos, maxPos) ==
    IF seekPos < 0 THEN 0
    ELSE IF seekPos > maxPos THEN maxPos
    ELSE seekPos

\* seekPos < 0 becomes 0, seekPos >= maxPos becomes maxPos - 1
ClampOffset(seekPos, maxPos) ==
    LET low == IF seekPos < 0 THEN 0 ELSE seekPos
    IN  IF low >= maxPos THEN maxPos - 1 ELSE low

\* time.Duration(seekPos) * time.Second / time.Duration(rate)
SeekPosition(seekPos, rate) == TruncDiv(seekPos * Second, rate)

SeekIgnored(pos) ==
    [call |-> [Call("seek") EXCEPT !.pos = pos],
     audioPosition |-> audioPosition, lastSeekTime |-> lastSeekTime,
     lastErr |-> lastErr]

\* a seek that starts the cooldown even when the decoder refuses
seekToPositionStampsRefusal(pos, accepts) ==
    IF streamer = Nil \/ Debounced(now, lastSeekTime)
    THEN SeekIgnored(pos)
    ELSE LET seekPos == ClampOffset(
                 SeekTarget(ClampPos(pos), audioDuration, format),
                 decoders[streamer].len)
             call == [Call("seek") EXCEPT !.pos = pos, !.called = TRUE,
                         !.offset = seekPos, !.accepted = accepts,
                         !.retry = lastCall.op = "seek" /\ lastCall.called
                                   /\ ~lastCall.accepted]
         IN  [call |-> call,
              audioPosition |-> IF accepts THEN SeekPosition(seekPos, format)
                                ELSE audioPosition,
              lastSeekTime |-> now,
              lastErr |-> IF accepts THEN lastErr ELSE "seek"]

\* seekToPosition(pos), the decoder accepting the seek or not: what the
\* call does (call) and the fields it leaves behind
seekToPosition(pos, accepts) ==
    IF streamer = Nil
    THEN SeekIgnored(pos)
    ELSE IF Debounced(now, lastSeekTime)
    THEN SeekIgnored(pos)
    ELSE LET seekPos == ClampOffset(
                 SeekTarget(ClampPos(pos), audioDuration, format),
                 decoders[streamer].len)
             call == [Call("seek") EXCEPT !.pos = pos, !.called = TRUE,
                         !.offset = seekPos, !.accepted = accepts,
                         !.retry = lastCall.op = "seek" /\ lastCall.called
                                   /\ ~lastCall.accepted]
         IN  IF ~accepts
             THEN [call |-> call, audioPosition |-> audioPosition,
                   lastSeekTime |-> lastSeekTime, lastErr |-> "seek"]
             ELSE [call |-> call,
                   audioPosition |-> SeekPosition(seekPos, format),
                   lastSeekTime |-> now, lastErr |-> lastErr]

(***************************************************************************)
(* SpecPlayer: Update's handlers and the end-of-stream callback, each run  *)
(* to completion.                                                          *)
(***************************************************************************)
Tick ==
    /\ consumer = "idle"
    /\ audioPosition' = updateAudioPosition
    /\ lastCall' = Call("tick")
    /\ UNCHANGED <<streamer, currentFile, format, ctrl, tap, paused, initDone,
                   lastErr, audioDuration, lastSeekTime>>
    /\ UNCHANGED <<now, decoders, ctrlPaused, playing, speakerMu, consumer>>

\* Update calls seekToPosition on a click or a drag of the progress bar,
\* which it accepts once a stream with a positive duration is loaded
SeekToPosition(pos, accepts) ==
    /\ consumer = "idle"
    /\ streamer # Nil /\ audioDuration > 0
    /\ LET r == seekToPosition(pos, accepts)
       IN  /\ lastCall' = r.call
           /\ audioPosition' = r.audioPosition
           /\ lastSeekTime' = r.lastSeekTime
           /\ lastErr' = r.lastErr
    /\ UNCHANGED <<streamer, currentFile, format, ctrl, tap, paused, initDone,
                   audioDuration>>
    /\ UNCHANGED <<now, decoders, ctrlPaused, playing, speakerMu, consumer>>

\* a togglePause that switches the pause on and never off
togglePauseSets ==
    IF ctrl = Nil
    THEN [paused |-> paused, ctrlPaused |-> ctrlPaused]
    ELSE [paused |-> TRUE, ctrlPaused |-> TRUE]

\* togglePause: g.paused and ctrl.Paused when it returns
togglePause ==
    IF ctrl = Nil
    THEN [paused |-> paused, ctrlPaused |-> ctrlPaused]
    ELSE [paused |-> ~paused, ctrlPaused |-> ~paused]

\* the Space key: togglePause takes the speaker's mutex around its writes
TogglePause ==
    /\ consumer = "idle"
    /\ speakerMu = "free"
    /\ paused' = togglePause.paused
    /\ ctrlPaused' = togglePause.ctrlPaused
    /\ lastCall' = [Call("togglePause") EXCEPT
                       !.before = <<paused, ctrlPaused>>,
                       !.before2 = IF lastCall.op = "togglePause"
                                   THEN lastCall.before ELSE <<>>]
    /\ UNCHANGED <<streamer, currentFile, format, ctrl, tap, initDone, lastErr,
                   audioDuration, audioPosition, lastSeekTime>>
    /\ UNCHANGED <<now, decoders, playing, speakerMu, consumer>>

\* loadAndPlay returns an error before it has a decoder: os.Open fails, the
\* extension is not supported or Decode fails; Update records the error
LoadFails ==
    /\ consumer = "idle"
    /\ lastErr' = "load"
    /\ lastCall' = Call("loadFailed")
    /\ UNCHANGED <<streamer, currentFile, format, ctrl, tap, paused, initDone,
                   audioDuration, audioPosition, lastSeekTime>>
    /\ UNCHANGED <<now, decoders, ctrlPaused, playing, speakerMu, consumer>>

\* a first load that sets the fields of the game before speaker.Init fails
LoadInitFailsAfterAssign(file) ==
    /\ consumer = "idle"
    /\ ~initDone
    /\ Len(decoders) < MaxLoads
    /\ decoders' = Append(decoders, [rate |-> file.rate, len |-> file.len,
                                     closed |-> 1])
    /\ streamer' = Len(decoders) + 1
    /\ tap' = Len(decoders) + 1
    /\ audioDuration' = StreamDuration(file.len, file.rate)
    /\ lastErr' = "load"
    /\ lastCall' = Call("loadFailed")
    /\ UNCHANGED <<currentFile, format, ctrl, paused, initDone, audioPosition,
                   lastSeekTime>>
    /\ UNCHANGED <<now, ctrlPaused, playing, speakerMu, consumer>>

\* the first load: speaker.Init fails, the decoder and the file are closed
LoadInitFails(file) ==
    /\ consumer = "idle"
    /\ ~initDone
    /\ Len(decoders) < MaxLoads
    /\ decoders' = Append(decoders, [rate |-> file.rate, len |-> file.len,
                                     closed |-> 1])
    /\ lastErr' = "load"
    /\ lastCall' = Call("loadFailed")
    /\ UNCHANGED <<streamer, currentFile, format, ctrl, tap, paused, initDone,
                   audioDuration, audioPosition, lastSeekTime>>
    /\ UNCHANGED <<now, ctrlPaused, playing, speakerMu, consumer>>

\* the first load that gets through: speaker.Init, the fields, speaker.Play
LoadAndPlay(file) ==
    /\ consumer = "idle"
    /\ ~initDone
    /\ Len(decoders) < MaxLoads
    /\ LET id == Len(decoders) + 1
       IN  /\ decoders' = Append(decoders, [rate |-> file.rate,
                                            len |-> file.len, closed |-> 0])
           /\ initDone' = TRUE
           /\ currentFile' = id
           /\ streamer' = id
           /\ format' = file.rate
           /\ ctrl' = id
           /\ ctrlPaused' = FALSE
           /\ tap' = id
           /\ paused' = FALSE
           /\ audioDuration' = StreamDuration(file.len, file.rate)
           /\ audioPosition' = 0
           /\ playing' = id
    /\ lastCall' = Call("load")
    /\ UNCHANGED <<lastErr, lastSeekTime, now, speakerMu, consumer>>

\* a load that closes the playing stream and leaves it in the speaker
LoadAgainClosesPlaying(file) ==
    /\ consumer = "idle"
    /\ initDone
    /\ speakerMu = "free"
    /\ Len(decoders) < MaxLoads
    /\ decoders' = Append(IF playing = Nil THEN decoders
                          ELSE [decoders EXCEPT ![playing].closed = @ + 1],
                          [rate |-> file.rate, len |-> file.len, closed |-> 0])
    /\ lastCall' = Call("load")
    /\ UNCHANGED gameVars
    /\ UNCHANGED <<now, ctrlPaused, playing, speakerMu, consumer>>

\* a load once the speaker is initialised: speaker.Lock() and then
\* speaker.Clear(), which locks the same mutex; the call never returns
LoadAgain(file) ==
    /\ consumer = "idle"
    /\ initDone
    /\ speakerMu = "free"
    /\ Len(decoders) < MaxLoads
    /\ decoders' = Append(decoders, [rate |-> file.rate, len |-> file.len,
                                     closed |-> 0])
    /\ speakerMu' = "consumer"
    /\ consumer' = "blocked in speaker.Clear"
    /\ lastCall' = Call("load")
    /\ UNCHANGED gameVars
    /\ UNCHANGED <<now, ctrlPaused, playing>>

\* a callback that closes the stream and leaves the clock as it is
StreamEndedKeepsClock ==
    /\ playing # Nil
    /\ ~ctrlPaused
    /\ speakerMu = "free"
    /\ decoders' = [decoders EXCEPT ![playing].closed = @ + 1]
    /\ streamer' = Nil
    /\ currentFile' = Nil
    /\ playing' = Nil
    /\ lastCall' = Call("streamEnded")
    /\ UNCHANGED <<format, ctrl, tap, paused, initDone, lastErr, lastSeekTime,
                   audioDuration, audioPosition>>
    /\ UNCHANGED <<now, ctrlPaused, speakerMu, consumer>>

\* the stream is drained: beep.Seq moves on to the callback, which the
\* speaker goroutine runs under the speaker's mutex
StreamEnded ==
    /\ playing # Nil
    /\ ~ctrlPaused
    /\ speakerMu = "free"
    /\ decoders' = [decoders EXCEPT ![playing].closed = @ + 1]
    /\ streamer' = Nil
    /\ currentFile' = Nil
    /\ audioDuration' = 0
    /\ audioPosition' = 0
    /\ playing' = Nil
    /\ lastCall' = Call("streamEnded")
    /\ UNCHANGED <<format, ctrl, tap, paused, initDone, lastErr, lastSeekTime>>
    /\ UNCHANGED <<now, ctrlPaused, speakerMu, consumer>>

\* the speaker goroutine, holding the speaker's mutex, pulls the next samples
\* of what speaker.Play was given: ctrl, unless paused, asks the tap, which
\* asks the decoder
SpeakerStream ==
    /\ playing # Nil
    /\ ~ctrlPaused
    /\ speakerMu = "free"
    /\ lastCall' = [Call("stream") EXCEPT
                       !.closedRead = decoders[playing].closed > 0]
    /\ UNCHANGED gameVars
    /\ UNCHANGED <<now, decoders, ctrlPaused, playing, speakerMu, consumer>>

\* a sixtieth of a second passes
ClockTick ==
    /\ now < MaxNow
    /\ now' = now + 1
    /\ lastCall' = Call("none")
    /\ UNCHANGED gameVars
    /\ UNCHANGED <<decoders, ctrlPaused, playing, speakerMu, consumer>>

vars == <<tapVars, gameVars, envVars, raceVars, vizVars, lockVars>>

InitPlayer == IdleTap /\ InitGame /\ InitEnv /\ InitAnalyzer /\ InitLock

NextPlayer ==
    \/ Tick /\ UNCHANGED <<tapVars, raceVars, vizVars, lockVars>>
    \/ (\E pos \in SeekRequests, accepts \in BOOLEAN : SeekToPosition(pos, accepts))
          /\ UNCHANGED <<tapVars, raceVars, vizVars, lockVars>>
    \/ TogglePause /\ UNCHANGED <<tapVars, raceVars, vizVars, lockVars>>
    \/ LoadFails /\ UNCHANGED <<tapVars, raceVars, vizVars, lockVars>>
    \/ (\E file \in Files : LoadInitFails(file)) /\ UNCHANGED <<tapVars, raceVars, vizVars, lockVars>>
    \/ (\E file \in Files : LoadAndPlay(file)) /\ UNCHANGED <<tapVars, raceVars, vizVars, lockVars>>
    \/ (\E file \in Files : LoadAgain(file)) /\ UNCHANGED <<tapVars, raceVars, vizVars, lockVars>>
    \/ SpeakerStream /\ UNCHANGED <<tapVars, raceVars, vizVars, lockVars>>
    \/ StreamEnded /\ UNCHANGED <<tapVars, raceVars, vizVars, lockVars>>
    \/ ClockTick /\ UNCHANGED <<tapVars, raceVars, vizVars, lockVars>>

SpecPlayer == InitPlayer /\ [][NextPlayer]_vars

(***************************************************************************)
(* SpecRace: the goroutine that runs Update (the consumer) and the speaker *)
(* goroutine (the producer) interleaved at their reads and writes of the   *)
(* game's fields.  updateAudioPosition and seekToPosition take no lock;    *)
(* the callback runs inside the mixer, under the speaker's mutex, which    *)
(* togglePause and loadAndPlay take as well.                               *)
(***************************************************************************)
Goto(pc) ==
    /\ consumer' = pc
    /\ UNCHANGED <<now, decoders, ctrlPaused, playing, speakerMu, lastCall,
                   producer>>

\* the handler returns (or the program panics): its locals are gone
Leave(pc) == Goto(pc) /\ local' = NoLocal

\* the end of Update, line 231: updateAudioData has taken its snapshot of
\* the tap and computed the bands; updateAudioPosition comes next
UpdateAudioDataDone ==
    /\ consumer = "idle"
    /\ Goto("tick: begin")
    /\ UNCHANGED <<gameVars, local>>

\* updateAudioPosition, line 587
TickBegin ==
    /\ consumer = "tick: begin"
    /\ IF streamer = Nil \/ paused
       THEN Goto("idle")
       ELSE Goto("tick add: load")
    /\ UNCHANGED <<gameVars, local>>

\* g.audioPosition += time.Second / 60, line 592
TickAddLoad ==
    /\ consumer = "tick add: load"
    /\ local' = [local EXCEPT !.reg = audioPosition]
    /\ Goto("tick add: store")
    /\ UNCHANGED gameVars

TickAddStore ==
    /\ consumer = "tick add: store"
    /\ audioPosition' = local.reg + TickDuration
    /\ Goto("tick compare: position")
    /\ UNCHANGED <<streamer, currentFile, format, ctrl, tap, paused, initDone,
                   lastErr, audioDuration, lastSeekTime, local>>

\* if g.audioPosition > g.audioDuration, line 593
TickComparePosition ==
    /\ consumer = "tick compare: position"
    /\ local' = [local EXCEPT !.reg = audioPosition]
    /\ Goto("tick compare: duration")
    /\ UNCHANGED gameVars

TickCompareDuration ==
    /\ consumer = "tick compare: duration"
    /\ IF local.reg > audioDuration
       THEN Goto("tick clamp: load") /\ UNCHANGED local
       ELSE Leave("idle")
    /\ UNCHANGED gameVars

\* g.audioPosition = g.audioDuration, line 594
TickClampLoad ==
    /\ consumer = "tick clamp: load"
    /\ local' = [local EXCEPT !.reg = audioDuration]
    /\ Goto("tick clamp: store")
    /\ UNCHANGED gameVars

TickClampStore ==
    /\ consumer = "tick clamp: store"
    /\ audioPosition' = local.reg
    /\ Leave("idle")
    /\ UNCHANGED <<streamer, currentFile, format, ctrl, tap, paused, initDone,
                   lastErr, audioDuration, lastSeekTime>>

\* Update accepts a click or a drag of the progress bar, line 188
SeekBegin(pos) ==
    /\ consumer = "idle"
    /\ streamer # Nil /\ audioDuration > 0
    /\ local' = [local EXCEPT !.pos = pos]
    /\ Goto("seek: checks")
    /\ UNCHANGED gameVars

\* seekToPosition, lines 599-606
SeekChecks ==
    /\ consumer = "seek: checks"
    /\ IF streamer = Nil \/ Debounced(now, lastSeekTime)
       THEN Leave("idle")
       ELSE Goto("seek: target") /\ UNCHANGED local
    /\ UNCHANGED gameVars

\* lines 608-622
SeekComputeTarget ==
    /\ consumer = "seek: target"
    /\ local' = [local EXCEPT
                   !.seekPos = SeekTarget(ClampPos(local.pos), audioDuration, format)]
    /\ Goto("seek: len")
    /\ UNCHANGED gameVars

\* maxPos := g.streamer.Len(), lines 625-628; a nil g.streamer panics
SeekLen ==
    /\ consumer = "seek: len"
    /\ IF streamer = Nil
       THEN Leave("panicked")
       ELSE /\ local' = [local EXCEPT
                           !.seekPos = ClampOffset(local.seekPos,
                                                   decoders[streamer].len)]
            /\ Goto("seek: call")
    /\ UNCHANGED gameVars

\* err := g.streamer.Seek(seekPos), lines 631-635
SeekCall(accepts) ==
    /\ consumer = "seek: call"
    /\ IF streamer = Nil
       THEN Leave("panicked") /\ UNCHANGED lastErr
       ELSE IF accepts
       THEN Goto("seek: position") /\ UNCHANGED <<lastErr, local>>
       ELSE Leave("idle") /\ lastErr' = "seek"
    /\ UNCHANGED <<streamer, currentFile, format, ctrl, tap, paused, initDone,
                   audioDuration, audioPosition, lastSeekTime>>

\* line 638
SeekStorePosition ==
    /\ consumer = "seek: position"
    /\ audioPosition' = SeekPosition(local.seekPos, format)
    /\ Goto("seek: stamp")
    /\ UNCHANGED <<streamer, currentFile, format, ctrl, tap, paused, initDone,
                   lastErr, audioDuration, lastSeekTime, local>>

\* line 639
SeekStamp ==
    /\ consumer = "seek: stamp"
    /\ lastSeekTime' = now
    /\ Leave("idle")
    /\ UNCHANGED <<streamer, currentFile, format, ctrl, tap, paused, initDone,
                   lastErr, audioDuration, audioPosition>>

ProducerStep(pc) ==
    /\ producer' = pc
    /\ UNCHANGED <<now, ctrlPaused, consumer, lastCall, local>>

\* the mixer takes the speaker's mutex and calls Stream on what it plays:
\* ctrl, unless paused, calls visualTap.Stream, which calls the decoder's
StreamCall ==
    /\ producer = "idle"
    /\ playing # Nil /\ ~ctrlPaused
    /\ speakerMu = "free"
    /\ speakerMu' = "producer"
    /\ ProducerStep("in Stream")
    /\ UNCHANGED <<gameVars, decoders, playing>>

\* the Stream call returns samples and the mixer releases the mutex
StreamReturn ==
    /\ producer = "in Stream"
    /\ speakerMu' = "free"
    /\ ProducerStep("idle")
    /\ UNCHANGED <<gameVars, decoders, playing>>

\* the stream is drained: the mixer, holding the speaker's mutex, reaches
\* the beep.Callback of line 755
CallbackBegin ==
    /\ producer = "idle"
    /\ playing # Nil /\ ~ctrlPaused
    /\ speakerMu = "free"
    /\ speakerMu' = "producer"
    /\ ProducerStep("callback: close")
    /\ UNCHANGED <<gameVars, decoders, playing>>

\* streamer.Close(); f.Close(), lines 757-758
CallbackClose ==
    /\ producer = "callback: close"
    /\ decoders' = [decoders EXCEPT ![playing].closed = @ + 1]
    /\ ProducerStep("callback: streamer")
    /\ UNCHANGED <<gameVars, playing, speakerMu>>

\* g.streamer = nil, line 759
CallbackStreamer ==
    /\ producer = "callback: streamer"
    /\ streamer' = Nil
    /\ ProducerStep("callback: file")
    /\ UNCHANGED <<currentFile, format, ctrl, tap, paused, initDone, lastErr,
                   audioDuration, audioPosition, lastSeekTime>>
    /\ UNCHANGED <<decoders, playing, speakerMu>>

\* g.currentFile = nil, line 760
CallbackFile ==
    /\ producer = "callback: file"
    /\ currentFile' = Nil
    /\ ProducerStep("callback: duration")
    /\ UNCHANGED <<streamer, format, ctrl, tap, paused, initDone, lastErr,
                   audioDuration, audioPosition, lastSeekTime>>
    /\ UNCHANGED <<decoders, playing, speakerMu>>

\* g.audioDuration = 0, line 761
CallbackDuration ==
    /\ producer = "callback: duration"
    /\ audioDuration' = 0
    /\ ProducerStep("callback: position")
    /\ UNCHANGED <<streamer, currentFile, format, ctrl, tap, paused, initDone,
                   lastErr, audioPosition, lastSeekTime>>
    /\ UNCHANGED <<decoders, playing, speakerMu>>

\* g.audioPosition = 0, line 762; the callback returns, the mixer drops the
\* drained chain and releases the mutex
CallbackPosition ==
    /\ producer = "callback: position"
    /\ audioPosition' = 0
    /\ playing' = Nil
    /\ speakerMu' = "free"
    /\ ProducerStep("idle")
    /\ UNCHANGED <<streamer, currentFile, format, ctrl, tap, paused, initDone,
                   lastErr, audioDuration, lastSeekTime>>
    /\ UNCHANGED decoders

InitRace == IdleTap /\ InitGame /\ InitEnv /\ InitAnalyzer /\ InitLock

NextRace ==
    \/ UpdateAudioDataDone /\ UNCHANGED <<tapVars, vizVars, lockVars>>
    \/ TickBegin /\ UNCHANGED <<tapVars, vizVars, lockVars>>
    \/ TickAddLoad /\ UNCHANGED <<tapVars, vizVars, lockVars>>
    \/ TickAddStore /\ UNCHANGED <<tapVars, vizVars, lockVars>>
    \/ TickComparePosition /\ UNCHANGED <<tapVars, vizVars, lockVars>>
    \/ TickCompareDuration /\ UNCHANGED <<tapVars, vizVars, lockVars>>
    \/ TickClampLoad /\ UNCHANGED <<tapVars, vizVars, lockVars>>
    \/ TickClampStore /\ UNCHANGED <<tapVars, vizVars, lockVars>>
    \/ (\E pos \in SeekRequests : SeekBegin(pos)) /\ UNCHANGED <<tapVars, vizVars, lockVars>>
    \/ SeekChecks /\ UNCHANGED <<tapVars, vizVars, lockVars>>
    \/ SeekComputeTarget /\ UNCHANGED <<tapVars, vizVars, lockVars>>
    \/ SeekLen /\ UNCHANGED <<tapVars, vizVars, lockVars>>
    \/ (\E accepts \in BOOLEAN : SeekCall(accepts)) /\ UNCHANGED <<tapVars, vizVars, lockVars>>
    \/ SeekStorePosition /\ UNCHANGED <<tapVars, vizVars, lockVars>>
    \/ SeekStamp /\ UNCHANGED <<tapVars, vizVars, lockVars>>
    \/ TogglePause /\ UNCHANGED <<tapVars, raceVars, vizVars, lockVars>>
    \/ LoadFails /\ UNCHANGED <<tapVars, raceVars, vizVars, lockVars>>
    \/ (\E file \in Files : LoadInitFails(file)) /\ UNCHANGED <<tapVars, raceVars, vizVars, lockVars>>
    \/ (\E file \in Files : LoadAndPlay(file)) /\ UNCHANGED <<tapVars, raceVars, vizVars, lockVars>>
    \/ (\E file \in Files : LoadAgain(file)) /\ UNCHANGED <<tapVars, raceVars, vizVars, lockVars>>
    \/ StreamCall /\ UNCHANGED <<tapVars, vizVars, lockVars>>
    \/ StreamReturn /\ UNCHANGED <<tapVars, vizVars, lockVars>>
    \/ CallbackBegin /\ UNCHANGED <<tapVars, vizVars, lockVars>>
    \/ CallbackClose /\ UNCHANGED <<tapVars, vizVars, lockVars>>
    \/ CallbackStreamer /\ UNCHANGED <<tapVars, vizVars, lockVars>>
    \/ CallbackFile /\ UNCHANGED <<tapVars, vizVars, lockVars>>
    \/ CallbackDuration /\ UNCHANGED <<tapVars, vizVars, lockVars>>
    \/ CallbackPosition /\ UNCHANGED <<tapVars, vizVars, lockVars>>
    \/ ClockTick /\ UNCHANGED <<tapVars, raceVars, vizVars, lockVars>>

SpecRace == InitRace /\ [][NextRace]_vars

\* the spectrum on its own, fed with snapshots
InitAnalyzerAlone == IdleTap /\ InitGame /\ InitEnv /\ InitAnalyzer /\ InitLock

NextAnalyzerAlone ==
    (\E smp \in Snapshots : UpdateAudioData(smp))
        /\ UNCHANGED <<tapVars, gameVars, envVars, raceVars, lockVars>>

SpecAnalyzer == InitAnalyzerAlone /\ [][NextAnalyzerAlone]_vars

(***************************************************************************)
(* SpecTapRace: Stream on the speaker goroutine (the producer) and         *)
(* snapshot on the goroutine that runs Update (the consumer), interleaved  *)
(* at the operations on t.mu and at every slot written or read.            *)
(***************************************************************************)
\* batches of n equal frames
UniformResults ==
    {[n |-> k, ok |-> ok, samples |-> [i \in 1..k |-> f]] :
        k \in 0..MaxBatch, ok \in BOOLEAN, f \in Frames}

\* n, ok := t.Source.Stream(samples) is entered, line 64
TapSourceCall ==
    /\ producer = "idle"
    /\ ret[2]
    /\ producer' = "tap: in Source.Stream"
    /\ UNCHANGED <<tapVars, lockVars, consumer>>

\* the source returns; with n = 0 Stream returns at once
TapSourceReturn(source) ==
    /\ producer = "tap: in Source.Stream"
    /\ Len(pushed) + source.n <= MaxPushed
    /\ src' = source
    /\ samples' = source.samples
    /\ IF source.n > 0
       THEN producer' = "tap: Lock" /\ UNCHANGED ret
       ELSE producer' = "idle" /\ ret' = <<source.n, source.ok>>
    /\ UNCHANGED <<buffer, nextIndex, pushed, snap, lockVars, consumer>>

\* t.mu.Lock(), line 66: waits until nobody holds the lock
TapLock ==
    /\ producer = "tap: Lock"
    /\ mu = "free"
    /\ mu' = "writer"
    /\ tapLocal' = [tapLocal EXCEPT !.i = 0]
    /\ producer' = "tap: record"
    /\ UNCHANGED <<tapVars, consumer>>

\* one round of the loop of lines 67-73
TapRecord ==
    /\ producer = "tap: record"
    /\ tapLocal.i < src.n
    /\ LET r == RecordLoop(buffer, nextIndex, samples, tapLocal.i, tapLocal.i + 1)
       IN  /\ buffer' = r.buffer
           /\ nextIndex' = r.nextIndex
    /\ tapLocal' = [tapLocal EXCEPT !.i = @ + 1]
    /\ UNCHANGED <<samples, ret, src, pushed, snap, mu, producer, consumer>>

\* t.mu.Unlock() and return n, ok, lines 74-76
TapUnlock ==
    /\ producer = "tap: record"
    /\ tapLocal.i >= src.n
    /\ mu' = "free"
    /\ pushed' = pushed \o src.samples
    /\ ret' = <<src.n, src.ok>>
    /\ producer' = "idle"
    /\ tapLocal' = [tapLocal EXCEPT !.i = 0]
    /\ UNCHANGED <<buffer, nextIndex, samples, src, snap, consumer>>

\* a snapshot that does not take the lock
SnapLockFree(n0) ==
    /\ consumer = "idle"
    /\ tapLocal' = [tapLocal EXCEPT
                       !.n0 = n0,
                       !.n = IF n0 > Len(buffer) THEN Len(buffer) ELSE n0,
                       !.idx = IF nextIndex - 1 < 0 THEN Len(buffer) - 1
                               ELSE nextIndex - 1,
                       !.k = 0, !.out = <<>>, !.reads = <<>>]
    /\ consumer' = "snapshot: walk"
    /\ snap' = NoSnap
    /\ UNCHANGED <<buffer, nextIndex, samples, ret, src, pushed, mu, producer>>

\* t.mu.RLock(), which waits for the writer, then lines 86-95
SnapLock(n0) ==
    /\ consumer = "idle"
    /\ mu = "free"
    /\ mu' = "reader"
    /\ tapLocal' = [tapLocal EXCEPT
                       !.n0 = n0,
                       !.n = IF n0 > Len(buffer) THEN Len(buffer) ELSE n0,
                       !.idx = IF nextIndex - 1 < 0 THEN Len(buffer) - 1
                               ELSE nextIndex - 1,
                       !.k = 0, !.out = <<>>, !.reads = <<>>]
    /\ consumer' = "snapshot: walk"
    /\ snap' = NoSnap
    /\ UNCHANGED <<buffer, nextIndex, samples, ret, src, pushed, producer>>

\* one round of the loop of lines 96-102
SnapRead ==
    /\ consumer = "snapshot: walk"
    /\ tapLocal.k < tapLocal.n
    /\ tapLocal' = [tapLocal EXCEPT
                       !.out = Append(@, buffer[tapLocal.idx + 1]),
                       !.reads = Append(@, tapLocal.idx),
                       !.idx = IF @ - 1 < 0 THEN Len(buffer) - 1 ELSE @ - 1,
                       !.k = @ + 1]
    /\ UNCHANGED <<tapVars, mu, producer, consumer>>

\* the reversal of lines 104-106; out is what snapshot is about to return
SnapReverse ==
    /\ consumer = "snapshot: walk"
    /\ tapLocal.k >= tapLocal.n
    /\ snap' = [n |-> tapLocal.n0, out |-> Reverse(tapLocal.out),
                reads |-> tapLocal.reads]
    /\ consumer' = "snapshot: return"
    /\ UNCHANGED <<buffer, nextIndex, samples, ret, src, pushed, lockVars,
                   producer>>

\* return out: the deferred t.mu.RUnlock() of line 84
SnapUnlock ==
    /\ consumer = "snapshot: return"
    /\ mu' = "free"
    /\ tapLocal' = [NoTapLocal EXCEPT !.i = tapLocal.i]
    /\ consumer' = "idle"
    /\ UNCHANGED <<tapVars, producer>>

InitTapRace == InitTap /\ InitGame /\ InitEnv /\ InitAnalyzer /\ InitLock

NextTapRace ==
    \/ TapSourceCall /\ UNCHANGED <<gameVars, vizVars>>
          /\ UNCHANGED <<now, decoders, ctrlPaused, playing, speakerMu,
                         lastCall, local>>
    \/ (\E source \in UniformResults : TapSourceReturn(source))
          /\ UNCHANGED <<gameVars, vizVars>>
          /\ UNCHANGED <<now, decoders, ctrlPaused, playing, speakerMu,
                         lastCall, local>>
    \/ TapLock /\ UNCHANGED <<gameVars, vizVars>>
          /\ UNCHANGED <<now, decoders, ctrlPaused, playing, speakerMu,
                         lastCall, local>>
    \/ TapRecord /\ UNCHANGED <<gameVars, vizVars>>
          /\ UNCHANGED <<now, decoders, ctrlPaused, playing, speakerMu,
                         lastCall, local>>
    \/ TapUnlock /\ UNCHANGED <<gameVars, vizVars>>
          /\ UNCHANGED <<now, decoders, ctrlPaused, playing, speakerMu,
                         lastCall, local>>
    \/ (\E n \in 0..(MaxCapacity + 1) : SnapLock(n))
          /\ UNCHANGED <<gameVars, vizVars>>
          /\ UNCHANGED <<now, decoders, ctrlPaused, playing, speakerMu,
                         lastCall, local>>
    \/ SnapRead /\ UNCHANGED <<gameVars, vizVars>>
          /\ UNCHANGED <<now, decoders, ctrlPaused, playing, speakerMu,
                         lastCall, local>>
    \/ SnapReverse /\ UNCHANGED <<gameVars, vizVars>>
          /\ UNCHANGED <<now, decoders, ctrlPaused, playing, speakerMu,
                         lastCall, local>>
    \/ SnapUnlock /\ UNCHANGED <<gameVars, vizVars>>
          /\ UNCHANGED <<now, decoders, ctrlPaused, playing, speakerMu,
                         lastCall, local>>

SpecTapRace == InitTapRace /\ [][NextTapRace]_vars

\* the tap on its own: the game stays as NewGame left it
InitTapAlone == InitTap /\ InitGame /\ InitEnv /\ InitAnalyzer /\ InitLock

NextTapAlone ==
    \/ (\E source \in SourceResults : TapStream(source))
          /\ UNCHANGED <<gameVars, envVars, raceVars, vizVars, lockVars>>
    \/ (\E n \in 0..(MaxCapacity + 2) : TapSnapshot(n))
          /\ UNCHANGED <<gameVars, envVars, raceVars, vizVars, lockVars>>

SpecTap == InitTapAlone /\ [][NextTapAlone]_vars

(***************************************************************************)
(* Claims about the tap (SpecTap).                                         *)
(***************************************************************************)
Capacity == Len(buffer)

\* C1: when the L frames pushed so far fit the ring (L <= capacity),
\* snapshot(L) returns exactly those frames, oldest first.
C1_SnapshotReturnsAllPushed ==
    (snap.n = Len(pushed) /\ Len(pushed) <= Capacity) => snap.out = pushed

\* three frames, not all alike, delivered in more than one batch to a ring
\* of at least three slots, and read back by snapshot(3)
C1_Witness ==
    /\ Len(pushed) = 3 /\ Capacity >= 3 /\ src.n < 3
    /\ pushed # Reverse(pushed)
    /\ snap.n = 3 /\ snap.out = pushed

\* C2: when more frames were pushed than the ring holds (L > capacity),
\* snapshot(capacity) returns the capacity most recent frames, oldest first.
C2_SnapshotReturnsMostRecent ==
    (snap.n = Capacity /\ Len(pushed) > Capacity)
        => snap.out = SubSeq(pushed, Len(pushed) - Capacity + 1, Len(pushed))

\* a ring of four slots after six frames, the last batch alone larger than
\* the ring
C2_Witness ==
    /\ Capacity = 4 /\ Len(pushed) = 6 /\ src.n > Capacity
    /\ snap.n = 4 /\ snap.out = SubSeq(pushed, 3, 6)
    /\ snap.out # Reverse(snap.out)

\* C3: on a tap into which no frame was ever pushed, snapshot(n) returns the
\* empty sequence for every n >= 0.
C3_EmptyTapSnapshotIsEmpty ==
    (pushed = <<>> /\ snap.n >= 0) => snap.out = <<>>

\* C4: snapshot(n) with n above the capacity returns what snapshot(capacity)
\* returns, at most capacity frames, and reads only slots of the ring.
C4_SnapshotClampsN ==
    snap.n > Capacity
        => /\ snap.out = snapshot(buffer, nextIndex, Capacity).out
           /\ Len(snap.out) <= Capacity
           /\ \A k \in 1..Len(snap.reads) : snap.reads[k] \in 0..(Capacity - 1)

\* snapshot(capacity + 2) of a ring that has wrapped
C4_Witness ==
    /\ snap.n = Capacity + 2 /\ Len(pushed) > Capacity /\ Capacity >= 2
    /\ Len(snap.out) = Capacity /\ snap.out # Reverse(snap.out)

\* C5: Stream returns the count and the flag the source returned, and the
\* first n frames of the batch are the source's frames, in the source's order.
C5_TapIsTransparent ==
    /\ ret = <<src.n, src.ok>>
    /\ Len(samples) >= src.n
    /\ SubSeq(samples, 1, src.n) = src.samples

\* a batch larger than the ring went through the tap and was recorded
C5_Witness ==
    /\ src.n > Capacity /\ src.samples # Reverse(src.samples)
    /\ ret = <<src.n, TRUE>> /\ samples = src.samples
    /\ Len(pushed) > src.n

\* C23: the cursor stays within the ring, 0 <= nextIndex < len(t.buffer);
\* a Stream call that records n frames moves it to (nextIndex + n) mod
\* len(t.buffer) and leaves the size of the ring alone, and a snapshot reads
\* slots of the ring only.
C23_CursorInRing ==
    /\ (0 <= nextIndex /\ nextIndex < Capacity)
    /\ [][/\ 0 <= nextIndex' /\ nextIndex' < Capacity
          /\ Len(buffer') = Capacity
          /\ nextIndex' = (nextIndex + Len(pushed') - Len(pushed)) % Capacity
          /\ \A k \in DOMAIN snap'.reads :
                0 <= snap'.reads[k] /\ snap'.reads[k] < Capacity]_vars

\* a batch of five frames has gone round a ring of four, from slot 1 to 2,
\* and a snapshot of the whole ring has been taken
C23_Witness ==
    /\ Capacity = 4 /\ src.n = 5 /\ Len(pushed) = 6 /\ nextIndex = 2
    /\ snap.n = 4 /\ Len(snap.reads) = 4

(***************************************************************************)
(* Claims about the tap's lock (SpecTapRace).                              *)
(***************************************************************************)
\* C22: what a snapshot returns is what snapshot makes of the ring as it
\* stands between two batches: when it returns no batch is half written and
\* its result is the last min(n, len(t.buffer)) slots of the ring of that
\* moment.  The writer holds t.mu exactly while it copies a batch, not
\* while it is in t.Source.Stream, and the reader exactly while it copies.
C22_SnapshotBetweenBatches ==
    /\ consumer = "snapshot: return"
          => /\ producer # "tap: record"
             /\ snap = snapshot(buffer, nextIndex, snap.n)
    /\ mu = "writer" <=> producer = "tap: record"
    /\ mu = "reader" <=> consumer \in {"snapshot: walk", "snapshot: return"}

\* a snapshot that holds audible frames returns while the producer, with
\* its next batch in hand, waits for the lock
C22_Witness ==
    /\ consumer = "snapshot: return" /\ producer = "tap: Lock"
    /\ mu = "reader" /\ src.n > 1 /\ Len(pushed) > 0
    /\ \E k \in DOMAIN snap.out : snap.out[k] # ZeroFrame

(***************************************************************************)
(* Claims about seekToPosition (SpecPlayer).                               *)
(***************************************************************************)
\* C7: a seek requested less than the debounce interval after the last
\* successful seek makes no decoder call and leaves the position, the time
\* of the last seek, the pause flags and the error as they were.
C7_DebouncedSeekIgnored ==
    [][(lastCall'.op = "seek" /\ now - lastSeekTime < DebounceInterval)
          => /\ ~lastCall'.called
             /\ UNCHANGED <<audioPosition, lastSeekTime, paused, ctrlPaused,
                            lastErr, audioDuration, streamer, decoders>>]_vars

\* a seek to the middle of the stream, and at the same instant a seek to its
\* start that is ignored: the position is still the first seek's
C7_Witness ==
    /\ lastCall.op = "seek" /\ lastCall.pos = <<0, 1>> /\ ~lastCall.called
    /\ lastSeekTime = now
    /\ audioPosition = 2 * TickDuration

\* C8: a request above 1 asks the decoder for the offset a request of 1 asks
\* for, totalSamples - 1, and a request below 0 for the offset of a request
\* of 0, which is 0; an accepted seek leaves the position of that offset.
C8_SeekClampsRequest ==
    (lastCall.op = "seek" /\ lastCall.called)
        => /\ lastCall.pos[1] >= lastCall.pos[2]
                => /\ lastCall.offset = decoders[streamer].len - 1
                   /\ lastCall.accepted
                        => audioPosition
                             = ((decoders[streamer].len - 1) * Second) \div format
           /\ lastCall.pos[1] <= 0
                => /\ lastCall.offset = 0
                   /\ lastCall.accepted => audioPosition = 0

\* seekToPosition(1.5) on a stream of four samples: offset 3
C8_Witness ==
    /\ lastCall.op = "seek" /\ lastCall.pos = <<3, 2>>
    /\ lastCall.called /\ lastCall.accepted
    /\ decoders[streamer].len = 4 /\ lastCall.offset = 3
    /\ audioPosition = (3 * Second) \div format

C9_Clamp(x, low, high) == IF x < low THEN low ELSE IF x > high THEN high ELSE x

\* C9 as stated: an accepted seek to p asks the decoder for
\* round(p * total * sampleRate) clamped to [0, totalSamples - 1], and leaves
\* position = offset / sampleRate and the time of the last seek = now.
C9_SeekTargetIsRounded ==
    (lastCall.op = "seek" /\ lastCall.called /\ lastCall.accepted)
        => /\ lastCall.offset
                = C9_Clamp((2 * lastCall.pos[1] * audioDuration * format
                                + lastCall.pos[2] * Second)
                             \div (2 * lastCall.pos[2] * Second),
                           0, decoders[streamer].len - 1)
           /\ audioPosition = (lastCall.offset * Second) \div format
           /\ lastSeekTime = now

\* C9 as amended: the offset is p * total * sampleRate truncated toward zero,
\* clamped to [0, totalSamples - 1]; position = offset / sampleRate and the
\* time of the last seek = now.  For 44100 Hz and 441000 samples (total 10 s)
\* p = 0.5 gives offset 220500 and position 5 s, and p = 1/246 (a click four
\* pixels into the bar) gives 1792, not 1793.
C9_SeekTargetIsTruncated ==
    /\ (lastCall.op = "seek" /\ lastCall.called /\ lastCall.accepted)
          => /\ lastCall.offset
                  = C9_Clamp(TruncDiv(lastCall.pos[1] * audioDuration * format,
                                      lastCall.pos[2] * Second),
                             0, decoders[streamer].len - 1)
             /\ audioPosition = (lastCall.offset * Second) \div format
             /\ lastSeekTime = now
    /\ StreamDuration(441000, 44100) = 10 * Second
    /\ SeekTarget(<<1, 2>>, 10 * Second, 44100) = 220500
    /\ SeekPosition(220500, 44100) = 5 * Second
    /\ SeekTarget(<<1, 246>>, 10 * Second, 44100) = 1792

\* seekToPosition(2/3) on four samples at 60 Hz: 2.67 samples, offset 2
C9_Witness ==
    /\ lastCall.op = "seek" /\ lastCall.pos = <<2, 3>>
    /\ lastCall.called /\ lastCall.accepted
    /\ format = 60 /\ decoders[streamer].len = 4
    /\ lastCall.offset = 2 /\ audioPosition = 2 /\ lastSeekTime = now

\* C10: a seek the decoder refuses leaves the position and the time of the
\* last seek as they were and records the error, so that a seek requested at
\* once afterwards is past the debounce check.
C10_RefusedSeekKeepsClock ==
    [][(lastCall'.op = "seek" /\ lastCall'.called /\ ~lastCall'.accepted)
          => /\ audioPosition' = audioPosition
             /\ lastSeekTime' = lastSeekTime
             /\ lastErr' = "seek"
             /\ now' - lastSeekTime' >= DebounceInterval]_vars

\* a refused seek, then at the same instant a seek the decoder accepts
C10_Witness ==
    /\ lastCall.op = "seek" /\ lastCall.retry
    /\ lastCall.called /\ lastCall.accepted
    /\ lastSeekTime = now /\ lastErr = "seek"
    /\ audioPosition = (lastCall.offset * Second) \div format

\* the tracker is Idle: no stream is loaded, or the stream has ended
Idle == streamer = Nil

\* C11: togglePause flips the paused flag and the pause control of the sink
\* while a stream is loaded, and changes neither of them when the tracker is
\* Idle, before the first load as well as after the stream has ended.
C11_TogglePauseIdleNoOp ==
    [][lastCall'.op = "togglePause"
          => IF Idle
             THEN paused' = paused /\ ctrlPaused' = ctrlPaused
             ELSE paused' = ~paused /\ ctrlPaused' = ~ctrlPaused]_vars

\* C12: two togglePause calls in a row leave the paused flag and the pause
\* control of the sink as the first of the two found them.
C12_DoubleToggleRestores ==
    (lastCall.op = "togglePause" /\ lastCall.before2 # <<>>)
        => <<paused, ctrlPaused>> = lastCall.before2

\* two calls in a row on a loaded stream, which the first of them paused
C12_Witness ==
    /\ lastCall.op = "togglePause" /\ lastCall.before2 = <<FALSE, FALSE>>
    /\ lastCall.before = <<TRUE, TRUE>>
    /\ ctrl # Nil /\ ~paused /\ ~ctrlPaused

\* C13: updateAudioPosition moves the position forward by a sixtieth of a
\* second, up to the duration and no further, when a stream is loaded and not
\* paused; paused or Idle it leaves the position as it is.
C13_TickAdvancesWhenPlaying ==
    [][lastCall'.op = "tick"
          => audioPosition' =
                IF ~Idle /\ ~paused
                THEN IF audioPosition + TickDuration <= audioDuration
                     THEN audioPosition + TickDuration ELSE audioDuration
                ELSE audioPosition]_vars

\* a tick of a paused stream that has played before
C13_Witness ==
    /\ lastCall.op = "tick" /\ ~Idle /\ paused
    /\ 0 < audioPosition /\ audioPosition < audioDuration

\* the stream ended and no other has been loaded since
Ended == initDone /\ playing = Nil

\* C14: once the end-of-stream callback has run, the tracker is Idle and the
\* position and the duration are 0, and they stay so, whatever the consumer
\* calls, ticks included; no later load gets as far as a new stream.
C14_EndedClockStaysZero ==
    Ended => (Idle /\ audioPosition = 0 /\ audioDuration = 0)

\* a tick after the end of a stream that was sought into
C14_Witness ==
    /\ Ended /\ lastCall.op = "tick" /\ lastSeekTime > ZeroTime
    /\ ~paused /\ audioPosition = 0 /\ audioDuration = 0

\* C15: the speaker never pulls samples from a decoder that has been closed:
\* whatever stops a stream, the decoder is closed only once the speaker has
\* stopped delivering from it, so what the speaker plays is never closed.
C15_SinkHaltedBeforeClose ==
    /\ ~lastCall.closedRead
    /\ playing # Nil => decoders[playing].closed = 0

\* a stream with samples has ended and its callback has closed the decoder
C15_Witness ==
    /\ lastCall.op = "streamEnded" /\ playing = Nil /\ audioPosition = 0
    /\ \E d \in DOMAIN decoders : decoders[d].closed = 1 /\ decoders[d].len > 0

\* C18: a load that returns an error leaves the session as it was: the
\* decoder, the file, the tap, the control, the pause flags, the position,
\* the duration and what the speaker plays; the caller records the error.
C18_FailedLoadKeepsSession ==
    [][lastCall'.op = "loadFailed"
          => /\ UNCHANGED <<streamer, currentFile, format, ctrl, tap, paused,
                            audioDuration, audioPosition>>
             /\ UNCHANGED <<playing, ctrlPaused, speakerMu>>
             /\ consumer' = "idle"
             /\ lastErr' = "load"]_vars

\* a load has failed while a paused stream is loaded, part of it played
C18_Witness ==
    /\ lastCall.op = "loadFailed" /\ lastErr = "load"
    /\ playing # Nil /\ streamer = playing /\ paused /\ audioPosition > 0

(***************************************************************************)
(* Claims about the spectrum (SpecAnalyzer).                               *)
(***************************************************************************)
\* band i of a spectrum, 0 when g.audioData is not allocated yet
BandValue(data, i) == IF Len(data) = NBands THEN data[i + 1] ELSE <<0, 1>>

\* what updateAudioData makes of a snapshot cut into segments of a given
\* size: band i blends in frames i*size .. (i+1)*size - 1, as far as the
\* snapshot goes, and keeps its value when the snapshot ends before them
C19_Partitioned(size) ==
    LET smp == analysed'
        n == Len(smp)
        End(i) == IF (i + 1) * size > n THEN n ELSE (i + 1) * size
    IN  \A i \in 0..(NBands - 1) :
           BandValue(audioData', i) =
              IF i * size < n
              THEN Smooth(BandValue(audioData, i), Magnitude(smp, i * size, End(i)))
              ELSE BandValue(audioData, i)

Silent(smp) == \A s \in 1..Len(smp) : smp[s] = ZeroFrame

C17_EndedStreamTapDiscarded ==
    Ended => tap = Nil

\* C24: a load with the speaker already initialised runs to completion:
\* the consumer is never left waiting in speaker.Clear for the mutex that
\* its own speaker.Lock holds.
C24_LoadRunsToCompletion ==
    ~(consumer = "blocked in speaker.Clear" /\ speakerMu = "consumer")

\* C26: a decoder is closed once and never twice, and by the time a later
\* load has opened the next decoder the one before it has been closed, by
\* the end of its stream or by that load.
C26_DecodersClosedOnce ==
    \A d \in DOMAIN decoders :
        /\ decoders[d].closed <= 1
        /\ d < Len(decoders) => decoders[d].closed = 1

(***************************************************************************)
(* Claims about the playback clock under interleaving (SpecRace).          *)
(***************************************************************************)
\* C6: 0 <= position <= total, whatever the speaker goroutine is doing, at
\* every point where the consumer is between two handlers.  (The claim
\* speaks of every point, those inside a handler included; these are the
\* points the next handler and Draw start from.)
C6_PositionWithinDuration ==
    consumer = "idle" => (0 <= audioPosition /\ audioPosition <= audioDuration)

\* C21: from the snapshot that updateAudioData takes to the store of the
\* new position by updateAudioPosition, in the same Update, nothing the
\* speaker goroutine does takes effect: no Stream call of the tap returns,
\* a batch recorded in the ring, and the callback resets neither the
\* duration nor the position.
C21_TickSeesOneEpoch ==
    [][(consumer \in {"tick: begin", "tick add: load", "tick add: store"}
           /\ producer' # producer)
          => /\ producer # "in Stream"
             /\ audioDuration' = audioDuration
             /\ audioPosition' = audioPosition]_vars

\* C25: whatever the callback does meanwhile, seekToPosition calls Len and
\* Seek on a decoder that is there (g.streamer not nil at the call, as at
\* its nil check) and that has not been closed.
C25_SeekOnOpenDecoder ==
    [][(consumer \in {"seek: len", "seek: call"} /\ consumer' # consumer)
          => (streamer # Nil /\ decoders[streamer].closed = 0)]_vars

\* C16: the consumer calls the decoder's Seek under the speaker's mutex, as
\* togglePause writes the pause flag, so that the call never runs while the
\* speaker goroutine is inside a Stream call on the same decoder.
C16_SeekOutsideStream ==
    [][(consumer = "seek: call" /\ consumer' # consumer /\ streamer # Nil)
          => ~(producer = "in Stream" /\ playing = streamer)]_vars

====
